---------------------------- MODULE Spec2Model ----------------------------
(***************************************************************************)
(* Model of the ConfusionMatrix class of                                   *)
(* projects/confusion-matrix/src/lib/components/confusion-matrix.models.ts *)
(*                                                                         *)
(* A ConfusionMatrix object is its three fields: labels, matrix and the    *)
(* private normalization history.  JavaScript numbers are modelled as      *)
(* exact rationals together with the special values NaN, +/-Infinity,      *)
(* null and undefined, so that 0/0, JSON round trips and out-of-range      *)
(* reads behave as they do in the program.                                 *)
(***************************************************************************)
EXTENDS Integers, Sequences, FiniteSets, TLC

VARIABLES
    labels,          \* this.labels
    matrix,          \* this.matrix
    normalizations,  \* this.normalizations, oldest snapshot first
    pre,             \* history variable: the (labels, matrix) seen just before
                     \* each normalize call whose snapshot is still on the stack,
                     \* and the matrix that call left (normalized)
    op,              \* name of the last method called
    arg,             \* arguments of the last call
    result           \* what the last call returned or threw

vars == <<labels, matrix, normalizations, pre, op, arg, result>>

----------------------------------------------------------------------------
(* Bounds of the model.                                                    *)

\* Largest cell value of the exhaustively enumerated matrices.
MaxCell == 4
\* Largest number of snapshots the normalization history may hold.
MaxHist == 2
\* Largest dimension of the diagonal matrices.
MaxDiagN == 3
\* Largest number of rows, row length and labels of a constructor input.
MaxShape == 3

----------------------------------------------------------------------------
(* JavaScript numbers.                                                     *)

\* The arithmetic is written as functions: a function application evaluates
\* its arguments once, before the body, as the program does.

Abs(x) == IF x < 0 THEN -x ELSE x

Sign(x) == IF x < 0 THEN -1 ELSE IF x > 0 THEN 1 ELSE 0

GCD[a \in Nat, b \in Nat] == IF b = 0 THEN a ELSE GCD[b, a % b]

Pow10[f \in Nat] == IF f = 0 THEN 1 ELSE 10 * Pow10[f - 1]

Lowest[n \in Int, d \in Int, g \in Nat] ==
    [k |-> "num", n |-> (Sign(d) * n) \div g, d |-> Abs(d) \div g]

\* The finite number n/d (d # 0), in lowest terms with a positive denominator.
Rat(n, d) == Lowest[n, d, GCD[Abs(n), Abs(d)]]

Num(i) == [k |-> "num", n |-> i, d |-> 1]
Zero == Num(0)
One == Num(1)
NaN == [k |-> "nan", n |-> 0, d |-> 0]
Inf(s) == [k |-> "inf", n |-> s, d |-> 0]
Null == [k |-> "null", n |-> 0, d |-> 1]
Undefined == [k |-> "undef", n |-> 0, d |-> 0]

\* ToNumber: null converts to 0, undefined to NaN.
ToNumber(x) ==
    IF x.k = "null" THEN Zero ELSE IF x.k = "undef" THEN NaN ELSE x

\* -a
Neg[a \in Any] ==
    LET x == ToNumber(a)
    IN  IF x.k = "nan" THEN NaN
        ELSE IF x.k = "inf" THEN Inf(-x.n)
        ELSE Rat(-x.n, x.d)

\* a + b
Add[a \in Any, b \in Any] ==
    LET x == ToNumber(a)
        y == ToNumber(b)
    IN  IF x.k = "nan" \/ y.k = "nan" THEN NaN
        ELSE IF x.k = "inf" THEN (IF y.k = "inf" /\ y.n # x.n THEN NaN ELSE x)
        ELSE IF y.k = "inf" THEN y
        ELSE Rat(x.n * y.d + y.n * x.d, x.d * y.d)

\* a - b
Sub[a \in Any, b \in Any] == Add[a, Neg[b]]

\* a * b
Mul[a \in Any, b \in Any] ==
    LET x == ToNumber(a)
        y == ToNumber(b)
    IN  IF x.k = "nan" \/ y.k = "nan" THEN NaN
        ELSE IF x.k = "inf" \/ y.k = "inf"
             THEN (IF x.n = 0 \/ y.n = 0 THEN NaN ELSE Inf(Sign(x.n) * Sign(y.n)))
        ELSE Rat(x.n * y.n, x.d * y.d)

\* a / b
Div[a \in Any, b \in Any] ==
    LET x == ToNumber(a)
        y == ToNumber(b)
    IN  IF x.k = "nan" \/ y.k = "nan" THEN NaN
        ELSE IF x.k = "inf"
             THEN (IF y.k = "inf" THEN NaN
                   ELSE Inf(x.n * (IF y.n < 0 THEN -1 ELSE 1)))
        ELSE IF y.k = "inf" THEN Zero
        ELSE IF y.n = 0 THEN (IF x.n = 0 THEN NaN ELSE Inf(Sign(x.n)))
        ELSE Rat(x.n * y.d, x.d * y.n)

\* a < b; every comparison with NaN is false.
Lt[a \in Any, b \in Any] ==
    LET x == ToNumber(a)
        y == ToNumber(b)
    IN  IF x.k = "nan" \/ y.k = "nan" THEN FALSE
        ELSE IF x.k = "inf" THEN x.n < 0 /\ ~(y.k = "inf" /\ y.n < 0)
        ELSE IF y.k = "inf" THEN y.n > 0
        ELSE x.n * y.d < y.n * x.d

\* a >= b
Ge[a \in Any, b \in Any] ==
    ToNumber(a).k # "nan" /\ ToNumber(b).k # "nan" /\ ~Lt[a, b]

\* Truthiness of a number: 0, NaN, null and undefined are falsy.
Truthy(x) == (x.k = "num" /\ x.n # 0) \/ x.k = "inf"

\* result || 0
OrZero[x \in Any] == IF Truthy(x) THEN x ELSE Zero

\* +x.toFixed(f): the nearest multiple of 10^-f, the larger one on a tie.
ToFixed[x \in Any, f \in Nat] ==
    IF x.k # "num" THEN ToNumber(x)
    ELSE Rat((2 * x.n * Pow10[f] + x.d) \div (2 * x.d), Pow10[f])

\* JSON.parse(JSON.stringify(x)) of a number: NaN, the infinities and
\* undefined array entries are written as null.
JsonNumber[x \in Any] == IF x.k \in {"nan", "inf", "undef"} THEN Null ELSE x

----------------------------------------------------------------------------
(* Values that stand for an argument that was not passed.                  *)

Absent == "<undefined>"

\* What a call returned (kind "ok") or threw (kind "throw").
Ok(v) == [kind |-> "ok", value |-> v, error |-> ""]
Throw(e) == [kind |-> "throw", value |-> Undefined, error |-> e]

\* The three messages of validateMatrix: the InvalidMatrixError kind.
ErrLabelsLength == "The labels length should be equals to the matrix columns length."
ErrDuplicateLabel == "The label appears more than once in the labels array."
ErrNotSquare == "The confusion matrix does not have the columns/rows length."
InvalidMatrixErrors == {ErrLabelsLength, ErrDuplicateLabel, ErrNotSquare}
ErrRange == "Min value cannot be equal or greater than max value."
ErrMinMax == "Error getting the min and max value. Please, verify the matrix dimensions."
ErrNoLabel == "A valid label should be passed."
ErrUnknownLabel == "The label does not exists in the matrix."
TypeError == "TypeError"

----------------------------------------------------------------------------
(* The object: private helpers.                                            *)

Obj(l, m) == [labels |-> l, matrix |-> m]

\* deepCopy of a label array: strings survive the JSON round trip unchanged.
deepCopyLabels(l) == [i \in DOMAIN l |-> l[i]]

\* deepCopy of the matrix: every cell goes through JSON.
deepCopyMatrix(m) ==
    [i \in DOMAIN m |-> [j \in DOMAIN m[i] |-> JsonNumber[m[i][j]]]]

\* validateMatrix: "" when nothing is thrown, else the message thrown.
validateMatrixNoDuplicateCheck(o) ==
    IF Len(o.labels) # Len(o.matrix) THEN ErrLabelsLength
    ELSE IF \E i \in DOMAIN o.matrix : Len(o.matrix[i]) # Len(o.matrix)
         THEN ErrNotSquare
    ELSE ""

validateMatrix(o) ==
    IF Len(o.labels) # Len(o.matrix) THEN ErrLabelsLength
    ELSE IF \E i \in 1..(Len(o.labels) - 1) :
              \E j \in (i + 1)..Len(o.labels) : o.labels[i] = o.labels[j]
         THEN ErrDuplicateLabel
    ELSE IF \E i \in DOMAIN o.matrix : Len(o.matrix[i]) # Len(o.matrix)
         THEN ErrNotSquare
    ELSE ""

\* The cells of the first n rows in the order nested loops visit them.
Flatten[m \in Any, n \in Nat] ==
    IF n = 0 THEN <<>> ELSE Flatten[m, n - 1] \o m[n]

\* The values of a sequence added up from 0, in order.
SumFromZero[s \in Any] ==
    IF s = <<>> THEN Zero
    ELSE Add[SumFromZero[SubSeq(s, 1, Len(s) - 1)], s[Len(s)]]

\* sumMatrix: the cells added up row by row, starting from 0.
sumMatrix(m) == SumFromZero[Flatten[m, Len(m)]]

\* The loop of getMinAndMax over the cells, from the pair (min, max).
MinMaxLoop[cells \in Any, min \in Any, max \in Any] ==
    IF cells = <<>> THEN [min |-> min, max |-> max]
    ELSE MinMaxLoop[Tail(cells),
                    IF Lt[cells[1], min] THEN cells[1] ELSE min,
                    IF Lt[max, cells[1]] THEN cells[1] ELSE max]

\* getMinAndMax: kind "ok" with min and max, kind "null" when it returns
\* null, kind "throw" when reading matrix[0][0] throws (there is no row 0).
getMinAndMax(o) ==
    IF o.matrix = <<>>
    THEN [kind |-> "throw", min |-> Undefined, max |-> Undefined]
    ELSE LET first == IF o.matrix[1] = <<>> THEN Undefined ELSE o.matrix[1][1]
         IN  IF ~Truthy(first)
             THEN [kind |-> "null", min |-> first, max |-> first]
             ELSE LET mm == MinMaxLoop[Flatten[o.matrix, Len(o.matrix)], first, first]
                  IN  [kind |-> "ok", min |-> mm.min, max |-> mm.max]

\* The new value normalize writes into a cell that holds x.
NormalizeCellSwapped(x, min, max, minX, maxX, fractionDigits) ==
    LET v == Add[Mul[Sub[max, min], Div[Sub[x, maxX], Sub[minX, maxX]]], min]
    IN  IF fractionDigits # <<>> THEN ToFixed[v, fractionDigits[1]] ELSE v

NormalizeCell(x, min, max, minX, maxX, fractionDigits) ==
    LET v == Add[Mul[Sub[max, min], Div[Sub[x, minX], Sub[maxX, minX]]], min]
    IN  IF fractionDigits # <<>> THEN ToFixed[v, fractionDigits[1]] ELSE v

\* new ConfusionMatrix(this) without the copy of the matrix.
SnapshotWithoutMatrix(o) == Obj(deepCopyLabels(o.labels), <<>>)

\* new ConfusionMatrix(this): the snapshot pushed by normalize is built by
\* the constructor, which deep-copies labels and matrix.
Snapshot(o) == Obj(deepCopyLabels(o.labels), deepCopyMatrix(o.matrix))

\* this.normalizations.pop(): the snapshot handed back and what stays.
PoppedOldest(hist) == [cm |-> hist[1], rest |-> Tail(hist)]

Popped(hist) == [cm |-> hist[Len(hist)], rest |-> SubSeq(hist, 1, Len(hist) - 1)]

\* this.normalizations[0], with the last index in place of the first.
NewestSnapshot(hist) == hist[Len(hist)]

\* this.normalizations[0]
OldestSnapshot(hist) == hist[1]

\* The guard of normalize on its range.
RangeRejectedOnlyWhenGreater(min, max) == Lt[max, min]

RangeRejected(min, max) == Ge[min, max]

----------------------------------------------------------------------------
(* Inputs of the lifecycle specification.                                  *)

Row(s) == [j \in DOMAIN s |-> Num(s[j])]
Mat(m) == [i \in DOMAIN m |-> Row(m[i])]

LabelInputs ==
    { <<>>, <<"Happy">>, <<"Happy", "Sad">>, <<"Happy", "Happy">> }

MatrixInputs ==
    { <<>>,
      Mat(<< <<2>> >>),
      Mat(<< <<1, 2>>, <<3, 4>> >>),
      Mat(<< <<3, 0>>, <<1, 2>> >>),
      Mat(<< <<1, 1>>, <<1, 1>> >>),
      Mat(<< <<0, 1>>, <<2, 3>> >>),
      Mat(<< <<1, 2>>, <<3>> >>) }

\* The (min, max) pairs normalize is called with.
RangeInputs == { <<Num(0), Num(1)>>, <<Num(1), Num(2)>>,
                 <<Num(1), Num(1)>>, <<Num(1), Num(0)>> }

\* fractionDigits: <<>> when the argument is not passed, else <<digits>>.
FractionDigitsInputs == {<<>>, <<1>>}

NoArgs == [none |-> TRUE]

----------------------------------------------------------------------------
(* The operations of the object.                                           *)

\* constructor({labels, matrix}): on a throw no object comes into being and
\* the object held so far stays.
Construct(l, m) ==
    LET o == Obj(deepCopyLabels(l), deepCopyMatrix(m))
        e == validateMatrix(o)
    IN  /\ op' = "constructor"
        /\ arg' = [labels |-> l, matrix |-> m]
        /\ IF e = ""
           THEN /\ labels' = o.labels
                /\ matrix' = o.matrix
                /\ normalizations' = <<>>
                /\ pre' = <<>>
                /\ result' = Ok(Undefined)
           ELSE /\ UNCHANGED <<labels, matrix, normalizations, pre>>
                /\ result' = Throw(e)

\* setConfusionMatrix(other): both fields are assigned, then validated.
SetConfusionMatrix(other) ==
    LET o == Obj(deepCopyLabels(other.labels), deepCopyMatrix(other.matrix))
        e == validateMatrix(o)
    IN  /\ op' = "setConfusionMatrix"
        /\ arg' = other
        /\ labels' = o.labels
        /\ matrix' = o.matrix
        /\ UNCHANGED <<normalizations, pre>>
        /\ result' = IF e = "" THEN Ok(Undefined) ELSE Throw(e)

\* normalize(min, max, fractionDigits)
Normalize(min, max, fractionDigits) ==
    LET this == Obj(labels, matrix)
        e == validateMatrix(this)
        mm == getMinAndMax(this)
    IN  /\ Len(normalizations) < MaxHist
        /\ op' = "normalize"
        /\ arg' = [min |-> min, max |-> max, fractionDigits |-> fractionDigits]
        /\ IF RangeRejected(min, max)
           THEN /\ result' = Throw(ErrRange)
                /\ UNCHANGED <<labels, matrix, normalizations, pre>>
           ELSE IF e # ""
           THEN /\ result' = Throw(e)
                /\ UNCHANGED <<labels, matrix, normalizations, pre>>
           ELSE IF mm.kind = "throw"
           THEN /\ result' = Throw(TypeError)
                /\ UNCHANGED <<labels, matrix, normalizations, pre>>
           ELSE IF mm.kind = "null"
           THEN /\ result' = Throw(ErrMinMax)
                /\ UNCHANGED <<labels, matrix, normalizations, pre>>
           ELSE /\ normalizations' = Append(normalizations, Snapshot(this))
                /\ matrix' = [i \in DOMAIN matrix |->
                                [j \in DOMAIN matrix[i] |->
                                   NormalizeCell(matrix[i][j], min, max,
                                                 mm.min, mm.max, fractionDigits)]]
                /\ pre' = Append(pre, [labels |-> labels, matrix |-> matrix,
                                       normalized |-> matrix'])
                /\ UNCHANGED labels
                /\ result' = Ok(Undefined)

\* revertNormalization(): pops and restores through setConfusionMatrix; the
\* method returns null on every path.
RevertNormalization ==
    /\ op' = "revertNormalization"
    /\ arg' = NoArgs
    /\ IF Len(normalizations) > 0
       THEN LET p == Popped(normalizations)
                o == Obj(deepCopyLabels(p.cm.labels), deepCopyMatrix(p.cm.matrix))
                e == validateMatrix(o)
            IN  /\ normalizations' = p.rest
                /\ pre' = SubSeq(pre, 1, Len(pre) - 1)
                /\ labels' = o.labels
                /\ matrix' = o.matrix
                /\ result' = IF e = "" THEN Ok(Null) ELSE Throw(e)
       ELSE /\ UNCHANGED <<labels, matrix, normalizations, pre>>
            /\ result' = Ok(Null)

\* revertAllNormalizations(): setConfusionMatrix(this.normalizations[0]);
\* with an empty history the argument is undefined and only the validation runs.
RevertAllNormalizations ==
    /\ op' = "revertAllNormalizations"
    /\ arg' = NoArgs
    /\ UNCHANGED <<normalizations, pre>>
    /\ IF Len(normalizations) > 0
       THEN LET cm == OldestSnapshot(normalizations)
                o == Obj(deepCopyLabels(cm.labels), deepCopyMatrix(cm.matrix))
                e == validateMatrix(o)
            IN  /\ labels' = o.labels
                /\ matrix' = o.matrix
                /\ result' = IF e = "" THEN Ok(Undefined) ELSE Throw(e)
       ELSE LET e == validateMatrix(Obj(labels, matrix))
            IN  /\ UNCHANGED <<labels, matrix>>
                /\ result' = IF e = "" THEN Ok(Undefined) ELSE Throw(e)

\* this.deepCopy(this.normalizations): every snapshot goes through JSON.
deepCopyNormalizations(hist) ==
    [i \in DOMAIN hist |->
        Obj(deepCopyLabels(hist[i].labels), deepCopyMatrix(hist[i].matrix))]

\* clone(): a new object built by the constructor from labels and matrix,
\* which then receives a deep copy of the history; the value of the call is
\* that object, and this object stays as it is.
Clone ==
    LET o == Obj(deepCopyLabels(labels), deepCopyMatrix(matrix))
        e == validateMatrix(o)
    IN  /\ op' = "clone"
        /\ arg' = NoArgs
        /\ result' = IF e # "" THEN Throw(e)
                      ELSE Ok([labels |-> o.labels, matrix |-> o.matrix,
                               normalizations |->
                                  deepCopyNormalizations(normalizations)])
        /\ UNCHANGED <<labels, matrix, normalizations, pre>>

\* labels and matrix are public fields: a caller may assign either.
AssignLabels(l) ==
    /\ op' = "labels="
    /\ arg' = [labels |-> l]
    /\ labels' = l
    /\ UNCHANGED <<matrix, normalizations, pre>>
    /\ result' = Ok(Undefined)

AssignMatrix(m) ==
    /\ op' = "matrix="
    /\ arg' = [matrix |-> m]
    /\ matrix' = m
    /\ UNCHANGED <<labels, normalizations, pre>>
    /\ result' = Ok(Undefined)

----------------------------------------------------------------------------
(* The lifecycle specification: one object, as the constructor leaves it  *)
(* when called with no argument or with an input it accepts.               *)

Init ==
    \E l \in LabelInputs, m \in MatrixInputs :
        /\ validateMatrix(Obj(deepCopyLabels(l), deepCopyMatrix(m))) = ""
        /\ labels = deepCopyLabels(l)
        /\ matrix = deepCopyMatrix(m)
        /\ normalizations = <<>>
        /\ pre = <<>>
        /\ op = "constructor"
        /\ arg = NoArgs
        /\ result = Ok(Undefined)

Next ==
    \/ \E l \in LabelInputs, m \in MatrixInputs : SetConfusionMatrix(Obj(l, m))
    \/ \E r \in RangeInputs, f \in FractionDigitsInputs : Normalize(r[1], r[2], f)
    \/ RevertNormalization
    \/ RevertAllNormalizations
    \/ Clone
    \/ \E l \in LabelInputs : AssignLabels(l)
    \/ \E m \in MatrixInputs : AssignMatrix(m)

Spec == Init /\ [][Next]_vars

----------------------------------------------------------------------------
(* The constructor specification: every input shape up to MaxShape is      *)
(* handed to the constructor once.                                         *)

LabelNames == <<"Happy", "Sad", "Angry", "Calm", "Bored", "Tired">>

\* All sequences over S of length at most n.
SeqsUpTo(S, n) == UNION { [1..k -> S] : k \in 0..n }

\* A row of the given length; validation never reads the cells.
ShapeRow(n) == [j \in 1..n |-> Num(j)]

ConstructorLabelInputs == SeqsUpTo({LabelNames[1], LabelNames[2]}, MaxShape)

ConstructorMatrixInputs == SeqsUpTo({ShapeRow(n) : n \in 0..MaxShape}, MaxShape)

InitConstruct ==
    \E l \in ConstructorLabelInputs, m \in ConstructorMatrixInputs :
        /\ labels = <<>>
        /\ matrix = <<>>
        /\ normalizations = <<>>
        /\ pre = <<>>
        /\ op = "input"
        /\ arg = [labels |-> l, matrix |-> m]
        /\ result = Ok(Undefined)

NextConstruct ==
    /\ op = "input"
    /\ Construct(arg.labels, arg.matrix)

SpecConstruct == InitConstruct /\ [][NextConstruct]_vars

----------------------------------------------------------------------------
(* Claims about construction and mutation.                                 *)

\* The three structural invariants of section 3, stated on an input.
Structural(l, m) ==
    /\ Len(l) = Len(m)
    /\ \A i \in DOMAIN m : Len(m[i]) = Len(m)
    /\ \A i \in DOMAIN l : \A j \in DOMAIN l : l[i] = l[j] => i = j

\* C1: constructing from (labels, matrix) succeeds exactly when the label
\* count equals the row count, every row is as long as there are rows and
\* the labels are pairwise distinct; every other input is refused with one
\* of the validation messages, and an accepted input becomes the object.
C1_ConstructIffStructural ==
    op = "constructor" =>
        /\ (result.kind = "ok") <=> Structural(arg.labels, arg.matrix)
        /\ result.kind = "throw" => result.error \in InvalidMatrixErrors
        /\ result.kind = "ok" => (labels = arg.labels /\ matrix = arg.matrix)

\* C1 witness: labels [Happy, Happy] with a 2x2 matrix were refused.
C1_Witness ==
    /\ op = "constructor"
    /\ arg.labels = <<"Happy", "Happy">>
    /\ Len(arg.matrix) = 2
    /\ \A i \in 1..2 : Len(arg.matrix[i]) = 2
    /\ result = Throw(ErrDuplicateLabel)

\* C2 (as claimed): a setConfusionMatrix call that throws a validation
\* error leaves labels and matrix as they were before the call.
C2_FailedSetIsAtomic ==
    [][(op' = "setConfusionMatrix" /\ result'.kind = "throw")
          => (labels' = labels /\ matrix' = matrix)]_vars

----------------------------------------------------------------------------
(* Claims about normalization.                                             *)

\* C8: a revertNormalization on a history of k snapshots restores the
\* labels and matrix that were live just before the k-th normalize call
\* still on the stack, and removes exactly that snapshot, so successive
\* reverts walk back through the pre-normalize states newest first and end
\* with an empty history.
C8_RevertRestoresLifo ==
    [][(op' = "revertNormalization" /\ Len(pre) > 0)
          => /\ result'.kind = "ok"
             /\ labels' = pre[Len(pre)].labels
             /\ matrix' = pre[Len(pre)].matrix
             /\ Len(normalizations) = Len(pre)
             /\ Len(normalizations') = Len(pre) - 1]_vars

\* C8 witness: the first revert after two normalize calls has restored the
\* state before the second call, which differs from the state before the
\* first one, still on the stack.
C8_Witness ==
    /\ op = "revertNormalization"
    /\ result.kind = "ok"
    /\ Len(normalizations) = 1
    /\ Len(pre) = 1
    /\ matrix # pre[1].matrix
    /\ matrix # normalizations[1].matrix

\* The cells of a matrix as a set.
CellsOf(m) == { m[i][j] : i \in DOMAIN m, j \in DOMAIN m[1] }

\* c is the smallest (largest) cell of m.
IsMatrixMin(m, c) == c \in CellsOf(m) /\ \A x \in CellsOf(m) : ~Lt[x, c]
IsMatrixMax(m, c) == c \in CellsOf(m) /\ \A x \in CellsOf(m) : ~Lt[c, x]

\* (max-min)*(old-matrixMin)/(matrixMax-matrixMin)+min
Rescaled(old, min, max, matrixMin, matrixMax) ==
    Add[Div[Mul[Sub[max, min], Sub[old, matrixMin]], Sub[matrixMax, matrixMin]], min]

\* C9: a normalize(min, max) without fractionDigits that succeeds on a
\* matrix whose smallest cell is below its largest cell rescales every cell
\* linearly: the smallest cells become min, the largest become max, every
\* cell ends in [min, max], and the labels stay.
C9_NormalizeRescales ==
    [][(/\ op' = "normalize"
        /\ result'.kind = "ok"
        /\ arg'.fractionDigits = <<>>
        /\ \E lo \in CellsOf(matrix), hi \in CellsOf(matrix) : Lt[lo, hi])
          => /\ labels' = labels
             /\ DOMAIN matrix' = DOMAIN matrix
             /\ \A lo \in CellsOf(matrix), hi \in CellsOf(matrix) :
                  (IsMatrixMin(matrix, lo) /\ IsMatrixMax(matrix, hi)) =>
                     \A i \in DOMAIN matrix : \A j \in DOMAIN matrix[i] :
                        /\ matrix'[i][j] =
                              Rescaled(matrix[i][j], arg'.min, arg'.max, lo, hi)
                        /\ matrix[i][j] = lo => matrix'[i][j] = arg'.min
                        /\ matrix[i][j] = hi => matrix'[i][j] = arg'.max
                        /\ Ge[matrix'[i][j], arg'.min]
                        /\ Ge[arg'.max, matrix'[i][j]]]_vars

\* C9 witness: [[1,2],[3,4]] under normalize(0, 1) holds 0 at [0][0] and 1
\* at [1][1].
C9_Witness ==
    /\ op = "normalize"
    /\ result.kind = "ok"
    /\ arg = [min |-> Zero, max |-> One, fractionDigits |-> <<>>]
    /\ Len(pre) > 0
    /\ pre[Len(pre)].matrix = Mat(<< <<1, 2>>, <<3, 4>> >>)
    /\ matrix[1][1] = Zero
    /\ matrix[2][2] = One
    /\ matrix[1][2] = Rat(1, 3)

\* C10: normalize(min, max) with min >= max throws the range error, pushes
\* no snapshot and leaves labels and matrix as they were, whatever the
\* state of the object.
C10_BadRangeRejected ==
    [][(op' = "normalize" /\ Ge[arg'.min, arg'.max])
          => /\ result' = Throw(ErrRange)
             /\ normalizations' = normalizations
             /\ labels' = labels
             /\ matrix' = matrix]_vars

\* C10 witness: normalize with min = max was refused on an object that
\* holds a snapshot and whose fields no longer pass validation.
C10_Witness ==
    /\ op = "normalize"
    /\ arg.min = arg.max
    /\ result = Throw(ErrRange)
    /\ Len(normalizations) > 0
    /\ validateMatrix(Obj(labels, matrix)) # ""

----------------------------------------------------------------------------
(* Class counts and prediction totals.                                     *)

\* labels.findIndex(element => element === label): 0 stands for -1.
findIndex(l, label) ==
    IF \E i \in DOMAIN l : l[i] = label
    THEN CHOOSE i \in DOMAIN l : l[i] = label /\ \A j \in 1..(i - 1) : l[j] # label
    ELSE 0

\* array.reduce((previous, next) => previous + next) on a non-empty array.
ReduceSum[s \in Any] ==
    IF Len(s) = 1 THEN s[1]
    ELSE Add[ReduceSum[SubSeq(s, 1, Len(s) - 1)], s[Len(s)]]

\* The loop adding up column position over the first n rows, from 0.
ColumnSum[m \in Any, position \in Nat, n \in Nat] ==
    IF n = 0 THEN Zero
    ELSE Add[ColumnSum[m, position, n - 1],
             IF position \in DOMAIN m[n] THEN m[n][position] ELSE Undefined]

\* The four counts from the sum of all cells, the diagonal cell, the sum of
\* the label's row and the sum of the label's column.
Classes[matrixSum \in Any, truePositive \in Any, rowSum \in Any, columnSum \in Any] ==
    LET falsePositive == Sub[rowSum, truePositive]
        falseNegative == Sub[columnSum, truePositive]
        trueNegative ==
            Sub[Sub[Sub[matrixSum, truePositive], falsePositive], falseNegative]
    IN  [truePositive |-> truePositive, trueNegative |-> trueNegative,
         falsePositive |-> falsePositive, falseNegative |-> falseNegative]

\* getConfusionMatrixClasses(label) with the sums of the label's row and
\* column exchanged.
getConfusionMatrixClassesTransposed(o, label) ==
    IF validateMatrix(o) # "" THEN Throw(validateMatrix(o))
    ELSE IF label = Absent \/ label = "" THEN Throw(ErrNoLabel)
    ELSE IF findIndex(o.labels, label) = 0 THEN Throw(ErrUnknownLabel)
    ELSE LET position == findIndex(o.labels, label)
         IN  Ok(Classes[sumMatrix(o.matrix),
                        o.matrix[position][position],
                        ColumnSum[o.matrix, position, Len(o.matrix)],
                        ReduceSum[o.matrix[position]]])

\* getConfusionMatrixClasses(label)
getConfusionMatrixClasses(o, label) ==
    IF validateMatrix(o) # "" THEN Throw(validateMatrix(o))
    ELSE IF label = Absent \/ label = "" THEN Throw(ErrNoLabel)
    ELSE IF findIndex(o.labels, label) = 0 THEN Throw(ErrUnknownLabel)
    ELSE LET position == findIndex(o.labels, label)
         IN  Ok(Classes[sumMatrix(o.matrix),
                        o.matrix[position][position],
                        ReduceSum[o.matrix[position]],
                        ColumnSum[o.matrix, position, Len(o.matrix)]])

\* The first result of the sequence that is a throw.
FirstThrow(rs) ==
    rs[CHOOSE i \in DOMAIN rs :
          rs[i].kind = "throw" /\ \A j \in 1..(i - 1) : rs[j].kind # "throw"]

AnyThrow(rs) == \E i \in DOMAIN rs : rs[i].kind = "throw"

\* all.push({label, confusionMatrixClasses})
PushClasses[all \in Any, label \in Any, classes \in Any] ==
    IF all.kind = "throw" THEN all
    ELSE IF classes.kind = "throw" THEN classes
    ELSE Ok(Append(all.value,
                   [label |-> label, confusionMatrixClasses |-> classes.value]))

\* The entries getAllMatrixClasses pushes for the first n labels; the first
\* throw of getConfusionMatrixClasses ends the loop.
AllClasses[o \in Any, n \in Nat] ==
    IF n = 0 THEN Ok(<<>>)
    ELSE PushClasses[AllClasses[o, n - 1], o.labels[n],
                     getConfusionMatrixClasses(o, o.labels[n])]

\* getAllMatrixClasses(): one entry per label, in label order.
getAllMatrixClasses(o) ==
    IF validateMatrix(o) # "" THEN Throw(validateMatrix(o))
    ELSE AllClasses[o, Len(o.labels)]

ZeroClasses ==
    [truePositive |-> Zero, trueNegative |-> Zero,
     falsePositive |-> Zero, falseNegative |-> Zero]

\* classesSum.x += value.confusionMatrixClasses.x, for the four counts.
AddClasses[acc \in Any, c \in Any] ==
    [truePositive |-> Add[acc.truePositive, c.truePositive],
     trueNegative |-> Add[acc.trueNegative, c.trueNegative],
     falsePositive |-> Add[acc.falsePositive, c.falsePositive],
     falseNegative |-> Add[acc.falseNegative, c.falseNegative]]

\* The accumulation of getSumConfusionMatrixClasses over entries from..n.
SumClasses[classes \in Any, from \in Nat, n \in Nat] ==
    IF n < from THEN ZeroClasses
    ELSE AddClasses[SumClasses[classes, from, n - 1],
                    classes[n].confusionMatrixClasses]

\* What getSumConfusionMatrixClasses makes of what getAllMatrixClasses
\* returned, were its loop to start at the second entry.
SumOfAllButFirst[classes \in Any] ==
    IF classes.kind = "throw" THEN classes
    ELSE Ok(SumClasses[classes.value, 2, Len(classes.value)])

\* What getSumConfusionMatrixClasses makes of what getAllMatrixClasses
\* returned.
SumOfAll[classes \in Any] ==
    IF classes.kind = "throw" THEN classes
    ELSE Ok(SumClasses[classes.value, 1, Len(classes.value)])

getSumConfusionMatrixClassesSkippingFirst(o) == SumOfAllButFirst[getAllMatrixClasses(o)]

\* getSumConfusionMatrixClasses()
getSumConfusionMatrixClasses(o) == SumOfAll[getAllMatrixClasses(o)]

\* The longest row of the matrix.
MaxRowLen(m) ==
    IF m = <<>> THEN 0
    ELSE CHOOSE n \in {Len(m[i]) : i \in DOMAIN m} :
            \A i \in DOMAIN m : Len(m[i]) <= n

\* sumLabels[index] after the first n rows were added to it, from start.
PredictionsColumn[m \in Any, index \in Nat, n \in Nat, start \in Any] ==
    IF n = 0 THEN start
    ELSE IF index \in DOMAIN m[n]
    THEN Add[PredictionsColumn[m, index, n - 1, start], m[n][index]]
    ELSE PredictionsColumn[m, index, n - 1, start]

\* getLabelsPredictionsSum(): an array of labels.length zeros, to which
\* every row adds its values index by index; an index past the array reads
\* undefined, so the entry it creates is NaN.
getLabelsPredictionsSum(o) ==
    [index \in 1..(IF MaxRowLen(o.matrix) > Len(o.labels)
                   THEN MaxRowLen(o.matrix) ELSE Len(o.labels)) |->
        PredictionsColumn[o.matrix, index, Len(o.matrix),
                          IF index <= Len(o.labels) THEN Zero ELSE Undefined]]

\* The return statement of getNumberOfPredictions: reduce without an
\* initial value throws a TypeError on an empty array; index 0 stands for
\* -1, where the array reads undefined.
NumberOfPredictionsOf[sumLabels \in Any, label \in Any, index \in Nat] ==
    IF label # Absent /\ label # ""
    THEN (IF index = 0 THEN Ok(Undefined) ELSE Ok(sumLabels[index]))
    ELSE IF Len(sumLabels) = 0 THEN Throw(TypeError)
    ELSE Ok(ReduceSum[sumLabels])

\* getNumberOfPredictions(label?)
getNumberOfPredictions(o, label) ==
    NumberOfPredictionsOf[getLabelsPredictionsSum(o), label, findIndex(o.labels, label)]

----------------------------------------------------------------------------
(* The metrics.                                                            *)

\* enum Average
Micro == "Micro"
Macro == "Macro"
Weighted == "Weighted"

\* The default value of the average parameter.
DefaultAverageMacro(average) == IF average = Absent THEN Macro ELSE average

DefaultAverage(average) == IF average = Absent THEN Weighted ELSE average

\* A configuration argument: passed tells whether the caller gave one.
NoConfiguration == [passed |-> FALSE, label |-> Absent, average |-> Absent]

\* The default value { average: Average.Weighted } of the configuration
\* parameter of the dispatchers that declare one.
DefaultConfiguration(configuration) ==
    IF configuration.passed THEN configuration
    ELSE [passed |-> TRUE, label |-> Absent, average |-> Weighted]

\* configuration?.label && configuration?.label.length > 0
LabelGiven(configuration) ==
    configuration.label # Absent /\ configuration.label # ""

\* sum += value, over the first n results, from 0.
SumValues[rs \in Any, n \in Nat] ==
    IF n = 0 THEN Zero ELSE Add[SumValues[rs, n - 1], rs[n].value]

\* The body of the macro methods without the division by the number of
\* labels.
MacroAverageUndivided(rs, n) ==
    IF AnyThrow(rs) THEN FirstThrow(rs)
    ELSE Ok(OrZero[SumValues[rs, n]])

\* The body shared by the macro methods: the per-label values added up and
\* divided by the number of labels, then result || 0.
MacroAverage(rs, n) ==
    IF AnyThrow(rs) THEN FirstThrow(rs)
    ELSE Ok(OrZero[Div[SumValues[rs, n], Num(n)]])

\* sum += value * sumLabels[index], over the first n results, from 0.
SumWeighted[rs \in Any, sumLabels \in Any, n \in Nat] ==
    IF n = 0 THEN Zero
    ELSE Add[SumWeighted[rs, sumLabels, n - 1], Mul[rs[n].value, sumLabels[n]]]

\* The body shared by the weighted methods; getNumberOfPredictions runs
\* before the loop over the labels.
WeightedAverage(rs, sumLabels, numberOfPredictions) ==
    IF numberOfPredictions.kind = "throw" THEN numberOfPredictions
    ELSE IF AnyThrow(rs) THEN FirstThrow(rs)
    ELSE Ok(OrZero[Div[SumWeighted[rs, sumLabels, Len(rs)],
                       numberOfPredictions.value]])

\* (TP + TN) / (TP + TN + FP + FN), then result || 0, on the counts a call returned; a throw
\* of that call passes through.
AccuracyOf[r \in Any] ==
    LET c == r.value
    IN  IF r.kind = "throw" THEN r
        ELSE Ok(OrZero[Div[Add[c.truePositive, c.trueNegative],
                           Add[Add[Add[c.truePositive, c.trueNegative], c.falsePositive], c.falseNegative]]])

\* labelAccuracy(label)
labelAccuracy(o, label) ==
    IF validateMatrix(o) # "" THEN Throw(validateMatrix(o))
    ELSE AccuracyOf[getConfusionMatrixClasses(o, label)]

\* microAccuracy()
microAccuracy(o) ==
    AccuracyOf[getSumConfusionMatrixClasses(o)]

\* macroAccuracy()
macroAccuracy(o) ==
    MacroAverage([i \in DOMAIN o.labels |-> labelAccuracy(o, o.labels[i])],
                 Len(o.labels))

\* weightedAccuracy()
weightedAccuracy(o) ==
    WeightedAverage([i \in DOMAIN o.labels |-> labelAccuracy(o, o.labels[i])],
                    getLabelsPredictionsSum(o), getNumberOfPredictions(o, Absent))

\* matrixAccuracy(average = Average.Weighted)
matrixAccuracy(o, average) ==
    IF validateMatrix(o) # "" THEN Throw(validateMatrix(o))
    ELSE IF DefaultAverage(average) = Micro THEN microAccuracy(o)
    ELSE IF DefaultAverage(average) = Macro THEN macroAccuracy(o)
    ELSE IF DefaultAverage(average) = Weighted THEN weightedAccuracy(o)
    ELSE Ok(Undefined)

\* accuracy(configuration)
accuracy(o, configuration) ==
    IF validateMatrix(o) # "" THEN Throw(validateMatrix(o))
    ELSE IF LabelGiven(DefaultConfiguration(configuration))
    THEN labelAccuracy(o, configuration.label)
    ELSE matrixAccuracy(o, DefaultConfiguration(configuration).average)

\* (FP + FN) / (TP + TN + FP + FN), then result || 0, on the counts a call returned; a throw
\* of that call passes through.
MissClassificationRateOf[r \in Any] ==
    LET c == r.value
    IN  IF r.kind = "throw" THEN r
        ELSE Ok(OrZero[Div[Add[c.falsePositive, c.falseNegative],
                           Add[Add[Add[c.truePositive, c.trueNegative], c.falsePositive], c.falseNegative]]])

\* labelMissClassificationRate(label)
labelMissClassificationRate(o, label) ==
    IF validateMatrix(o) # "" THEN Throw(validateMatrix(o))
    ELSE MissClassificationRateOf[getConfusionMatrixClasses(o, label)]

\* microMissClassificationRate()
microMissClassificationRate(o) ==
    MissClassificationRateOf[getSumConfusionMatrixClasses(o)]

\* macroMissClassificationRate()
macroMissClassificationRate(o) ==
    MacroAverage([i \in DOMAIN o.labels |-> labelMissClassificationRate(o, o.labels[i])],
                 Len(o.labels))

\* weightedMissClassificationRate()
weightedMissClassificationRate(o) ==
    WeightedAverage([i \in DOMAIN o.labels |-> labelMissClassificationRate(o, o.labels[i])],
                    getLabelsPredictionsSum(o), getNumberOfPredictions(o, Absent))

\* matrixMissClassificationRate(average = Average.Weighted)
matrixMissClassificationRate(o, average) ==
    IF validateMatrix(o) # "" THEN Throw(validateMatrix(o))
    ELSE IF DefaultAverage(average) = Micro THEN microMissClassificationRate(o)
    ELSE IF DefaultAverage(average) = Macro THEN macroMissClassificationRate(o)
    ELSE IF DefaultAverage(average) = Weighted THEN weightedMissClassificationRate(o)
    ELSE Ok(Undefined)

\* missClassificationRate(configuration)
missClassificationRate(o, configuration) ==
    IF validateMatrix(o) # "" THEN Throw(validateMatrix(o))
    ELSE IF LabelGiven(DefaultConfiguration(configuration))
    THEN labelMissClassificationRate(o, configuration.label)
    ELSE matrixMissClassificationRate(o, DefaultConfiguration(configuration).average)

\* TP / (TP + FP), then result || 0, on the counts a call returned; a throw
\* of that call passes through.
PrecisionOf[r \in Any] ==
    LET c == r.value
    IN  IF r.kind = "throw" THEN r
        ELSE Ok(OrZero[Div[c.truePositive,
                           Add[c.truePositive, c.falsePositive]]])

\* labelPrecision(label)
labelPrecision(o, label) ==
    IF validateMatrix(o) # "" THEN Throw(validateMatrix(o))
    ELSE PrecisionOf[getConfusionMatrixClasses(o, label)]

\* microPrecision()
microPrecision(o) ==
    PrecisionOf[getSumConfusionMatrixClasses(o)]

\* macroPrecision()
macroPrecision(o) ==
    MacroAverage([i \in DOMAIN o.labels |-> labelPrecision(o, o.labels[i])],
                 Len(o.labels))

\* weightedPrecision()
weightedPrecision(o) ==
    WeightedAverage([i \in DOMAIN o.labels |-> labelPrecision(o, o.labels[i])],
                    getLabelsPredictionsSum(o), getNumberOfPredictions(o, Absent))

\* matrixPrecision(average = Average.Weighted)
matrixPrecision(o, average) ==
    IF validateMatrix(o) # "" THEN Throw(validateMatrix(o))
    ELSE IF DefaultAverage(average) = Micro THEN microPrecision(o)
    ELSE IF DefaultAverage(average) = Macro THEN macroPrecision(o)
    ELSE IF DefaultAverage(average) = Weighted THEN weightedPrecision(o)
    ELSE Ok(Undefined)

\* precision(configuration)
precision(o, configuration) ==
    IF validateMatrix(o) # "" THEN Throw(validateMatrix(o))
    ELSE IF LabelGiven(DefaultConfiguration(configuration))
    THEN labelPrecision(o, configuration.label)
    ELSE matrixPrecision(o, DefaultConfiguration(configuration).average)

\* TP / (TP + FN), then result || 0, on the counts a call returned; a throw
\* of that call passes through.
RecallOf[r \in Any] ==
    LET c == r.value
    IN  IF r.kind = "throw" THEN r
        ELSE Ok(OrZero[Div[c.truePositive,
                           Add[c.truePositive, c.falseNegative]]])

\* labelRecall(label)
labelRecall(o, label) ==
    IF validateMatrix(o) # "" THEN Throw(validateMatrix(o))
    ELSE RecallOf[getConfusionMatrixClasses(o, label)]

\* microRecall()
microRecall(o) ==
    RecallOf[getSumConfusionMatrixClasses(o)]

\* macroRecall()
macroRecall(o) ==
    MacroAverage([i \in DOMAIN o.labels |-> labelRecall(o, o.labels[i])],
                 Len(o.labels))

\* weightedRecall()
weightedRecall(o) ==
    WeightedAverage([i \in DOMAIN o.labels |-> labelRecall(o, o.labels[i])],
                    getLabelsPredictionsSum(o), getNumberOfPredictions(o, Absent))

\* matrixRecall(average = Average.Weighted)
matrixRecall(o, average) ==
    IF validateMatrix(o) # "" THEN Throw(validateMatrix(o))
    ELSE IF DefaultAverage(average) = Micro THEN microRecall(o)
    ELSE IF DefaultAverage(average) = Macro THEN macroRecall(o)
    ELSE IF DefaultAverage(average) = Weighted THEN weightedRecall(o)
    ELSE Ok(Undefined)

\* recall(configuration)
recall(o, configuration) ==
    IF validateMatrix(o) # "" THEN Throw(validateMatrix(o))
    ELSE IF LabelGiven(DefaultConfiguration(configuration))
    THEN labelRecall(o, configuration.label)
    ELSE matrixRecall(o, DefaultConfiguration(configuration).average)

\* TN / (TN + FP), then result || 0, on the counts a call returned; a throw
\* of that call passes through.
SpecificityOf[r \in Any] ==
    LET c == r.value
    IN  IF r.kind = "throw" THEN r
        ELSE Ok(OrZero[Div[c.trueNegative,
                           Add[c.trueNegative, c.falsePositive]]])

\* labelSpecificity(label)
labelSpecificity(o, label) ==
    IF validateMatrix(o) # "" THEN Throw(validateMatrix(o))
    ELSE SpecificityOf[getConfusionMatrixClasses(o, label)]

\* microSpecificity()
microSpecificity(o) ==
    SpecificityOf[getSumConfusionMatrixClasses(o)]

\* macroSpecificity()
macroSpecificity(o) ==
    MacroAverage([i \in DOMAIN o.labels |-> labelSpecificity(o, o.labels[i])],
                 Len(o.labels))

\* weightedSpecificity()
weightedSpecificity(o) ==
    WeightedAverage([i \in DOMAIN o.labels |-> labelSpecificity(o, o.labels[i])],
                    getLabelsPredictionsSum(o), getNumberOfPredictions(o, Absent))

\* matrixSpecificity(average = Average.Weighted)
matrixSpecificity(o, average) ==
    IF validateMatrix(o) # "" THEN Throw(validateMatrix(o))
    ELSE IF DefaultAverage(average) = Micro THEN microSpecificity(o)
    ELSE IF DefaultAverage(average) = Macro THEN macroSpecificity(o)
    ELSE IF DefaultAverage(average) = Weighted THEN weightedSpecificity(o)
    ELSE Ok(Undefined)

\* specificity(configuration)
specificity(o, configuration) ==
    IF validateMatrix(o) # "" THEN Throw(validateMatrix(o))
    ELSE IF LabelGiven(DefaultConfiguration(configuration))
    THEN labelSpecificity(o, configuration.label)
    ELSE matrixSpecificity(o, DefaultConfiguration(configuration).average)

\* applyF1ScoreFormula(precision, recall): the bare quotient.
applyF1ScoreFormula(p, r) == Mul[Num(2), Div[Mul[p, r], Add[p, r]]]

\* 2 * ((precision * recall) / (precision + recall)), then result || 0, on
\* what the precision and recall calls returned.
LabelF1Of[p \in Any, r \in Any] ==
    IF p.kind = "throw" THEN p
    ELSE IF r.kind = "throw" THEN r
    ELSE Ok(OrZero[Mul[Num(2), Div[Mul[p.value, r.value], Add[p.value, r.value]]]])

\* The formula of microF1Score on what microPrecision and microRecall
\* returned: applyF1ScoreFormula, with no result || 0.
MicroF1Of[p \in Any, r \in Any] ==
    IF p.kind = "throw" THEN p
    ELSE IF r.kind = "throw" THEN r
    ELSE Ok(applyF1ScoreFormula(p.value, r.value))

\* labelF1Score(label)
labelF1Score(o, label) ==
    IF validateMatrix(o) # "" THEN Throw(validateMatrix(o))
    ELSE LabelF1Of[precision(o, [passed |-> TRUE, label |-> label, average |-> Absent]),
                   recall(o, [passed |-> TRUE, label |-> label, average |-> Absent])]

\* microF1Score()
microF1Score(o) ==
    MicroF1Of[microPrecision(o), microRecall(o)]

\* macroF1Score()
macroF1Score(o) ==
    MacroAverage([i \in DOMAIN o.labels |-> labelF1Score(o, o.labels[i])],
                 Len(o.labels))

\* weightedF1Score()
weightedF1Score(o) ==
    WeightedAverage([i \in DOMAIN o.labels |-> labelF1Score(o, o.labels[i])],
                    getLabelsPredictionsSum(o), getNumberOfPredictions(o, Absent))

\* matrixF1Score(average = Average.Weighted)
matrixF1Score(o, average) ==
    IF validateMatrix(o) # "" THEN Throw(validateMatrix(o))
    ELSE IF DefaultAverage(average) = Micro THEN microF1Score(o)
    ELSE IF DefaultAverage(average) = Macro THEN macroF1Score(o)
    ELSE IF DefaultAverage(average) = Weighted THEN weightedF1Score(o)
    ELSE Ok(Undefined)

\* f1Score(configuration)
f1Score(o, configuration) ==
    IF validateMatrix(o) # "" THEN Throw(validateMatrix(o))
    ELSE IF LabelGiven(configuration)
    THEN labelF1Score(o, configuration.label)
    ELSE matrixF1Score(o, configuration.average)

----------------------------------------------------------------------------
(* The metrics specification: an object built from a valid input, on which *)
(* the caller invokes one read-only method after another.                  *)

\* The caller is between two calls.
Ready == op \in {"constructor", "idle"}

\* The caller takes the result of the call it made.
TakeResult ==
    /\ ~Ready
    /\ op' = "idle"
    /\ arg' = NoArgs
    /\ result' = Ok(Undefined)
    /\ UNCHANGED <<labels, matrix, normalizations, pre>>

CallAccuracy(configuration) ==
    /\ Ready
    /\ op' = "accuracy"
    /\ arg' = configuration
    /\ result' = accuracy(Obj(labels, matrix), configuration)
    /\ UNCHANGED <<labels, matrix, normalizations, pre>>

CallLabelAccuracy(label) ==
    /\ Ready
    /\ op' = "labelAccuracy"
    /\ arg' = [label |-> label]
    /\ result' = labelAccuracy(Obj(labels, matrix), label)
    /\ UNCHANGED <<labels, matrix, normalizations, pre>>

CallMatrixAccuracy(average) ==
    /\ Ready
    /\ op' = "matrixAccuracy"
    /\ arg' = [average |-> average]
    /\ result' = matrixAccuracy(Obj(labels, matrix), average)
    /\ UNCHANGED <<labels, matrix, normalizations, pre>>

CallMicroAccuracy ==
    /\ Ready
    /\ op' = "microAccuracy"
    /\ arg' = NoArgs
    /\ result' = microAccuracy(Obj(labels, matrix))
    /\ UNCHANGED <<labels, matrix, normalizations, pre>>

CallMacroAccuracy ==
    /\ Ready
    /\ op' = "macroAccuracy"
    /\ arg' = NoArgs
    /\ result' = macroAccuracy(Obj(labels, matrix))
    /\ UNCHANGED <<labels, matrix, normalizations, pre>>

CallWeightedAccuracy ==
    /\ Ready
    /\ op' = "weightedAccuracy"
    /\ arg' = NoArgs
    /\ result' = weightedAccuracy(Obj(labels, matrix))
    /\ UNCHANGED <<labels, matrix, normalizations, pre>>

CallMissClassificationRate(configuration) ==
    /\ Ready
    /\ op' = "missClassificationRate"
    /\ arg' = configuration
    /\ result' = missClassificationRate(Obj(labels, matrix), configuration)
    /\ UNCHANGED <<labels, matrix, normalizations, pre>>

CallLabelMissClassificationRate(label) ==
    /\ Ready
    /\ op' = "labelMissClassificationRate"
    /\ arg' = [label |-> label]
    /\ result' = labelMissClassificationRate(Obj(labels, matrix), label)
    /\ UNCHANGED <<labels, matrix, normalizations, pre>>

CallMatrixMissClassificationRate(average) ==
    /\ Ready
    /\ op' = "matrixMissClassificationRate"
    /\ arg' = [average |-> average]
    /\ result' = matrixMissClassificationRate(Obj(labels, matrix), average)
    /\ UNCHANGED <<labels, matrix, normalizations, pre>>

CallMicroMissClassificationRate ==
    /\ Ready
    /\ op' = "microMissClassificationRate"
    /\ arg' = NoArgs
    /\ result' = microMissClassificationRate(Obj(labels, matrix))
    /\ UNCHANGED <<labels, matrix, normalizations, pre>>

CallMacroMissClassificationRate ==
    /\ Ready
    /\ op' = "macroMissClassificationRate"
    /\ arg' = NoArgs
    /\ result' = macroMissClassificationRate(Obj(labels, matrix))
    /\ UNCHANGED <<labels, matrix, normalizations, pre>>

CallWeightedMissClassificationRate ==
    /\ Ready
    /\ op' = "weightedMissClassificationRate"
    /\ arg' = NoArgs
    /\ result' = weightedMissClassificationRate(Obj(labels, matrix))
    /\ UNCHANGED <<labels, matrix, normalizations, pre>>

CallPrecision(configuration) ==
    /\ Ready
    /\ op' = "precision"
    /\ arg' = configuration
    /\ result' = precision(Obj(labels, matrix), configuration)
    /\ UNCHANGED <<labels, matrix, normalizations, pre>>

CallLabelPrecision(label) ==
    /\ Ready
    /\ op' = "labelPrecision"
    /\ arg' = [label |-> label]
    /\ result' = labelPrecision(Obj(labels, matrix), label)
    /\ UNCHANGED <<labels, matrix, normalizations, pre>>

CallMatrixPrecision(average) ==
    /\ Ready
    /\ op' = "matrixPrecision"
    /\ arg' = [average |-> average]
    /\ result' = matrixPrecision(Obj(labels, matrix), average)
    /\ UNCHANGED <<labels, matrix, normalizations, pre>>

CallMicroPrecision ==
    /\ Ready
    /\ op' = "microPrecision"
    /\ arg' = NoArgs
    /\ result' = microPrecision(Obj(labels, matrix))
    /\ UNCHANGED <<labels, matrix, normalizations, pre>>

CallMacroPrecision ==
    /\ Ready
    /\ op' = "macroPrecision"
    /\ arg' = NoArgs
    /\ result' = macroPrecision(Obj(labels, matrix))
    /\ UNCHANGED <<labels, matrix, normalizations, pre>>

CallWeightedPrecision ==
    /\ Ready
    /\ op' = "weightedPrecision"
    /\ arg' = NoArgs
    /\ result' = weightedPrecision(Obj(labels, matrix))
    /\ UNCHANGED <<labels, matrix, normalizations, pre>>

CallRecall(configuration) ==
    /\ Ready
    /\ op' = "recall"
    /\ arg' = configuration
    /\ result' = recall(Obj(labels, matrix), configuration)
    /\ UNCHANGED <<labels, matrix, normalizations, pre>>

CallLabelRecall(label) ==
    /\ Ready
    /\ op' = "labelRecall"
    /\ arg' = [label |-> label]
    /\ result' = labelRecall(Obj(labels, matrix), label)
    /\ UNCHANGED <<labels, matrix, normalizations, pre>>

CallMatrixRecall(average) ==
    /\ Ready
    /\ op' = "matrixRecall"
    /\ arg' = [average |-> average]
    /\ result' = matrixRecall(Obj(labels, matrix), average)
    /\ UNCHANGED <<labels, matrix, normalizations, pre>>

CallMicroRecall ==
    /\ Ready
    /\ op' = "microRecall"
    /\ arg' = NoArgs
    /\ result' = microRecall(Obj(labels, matrix))
    /\ UNCHANGED <<labels, matrix, normalizations, pre>>

CallMacroRecall ==
    /\ Ready
    /\ op' = "macroRecall"
    /\ arg' = NoArgs
    /\ result' = macroRecall(Obj(labels, matrix))
    /\ UNCHANGED <<labels, matrix, normalizations, pre>>

CallWeightedRecall ==
    /\ Ready
    /\ op' = "weightedRecall"
    /\ arg' = NoArgs
    /\ result' = weightedRecall(Obj(labels, matrix))
    /\ UNCHANGED <<labels, matrix, normalizations, pre>>

CallSpecificity(configuration) ==
    /\ Ready
    /\ op' = "specificity"
    /\ arg' = configuration
    /\ result' = specificity(Obj(labels, matrix), configuration)
    /\ UNCHANGED <<labels, matrix, normalizations, pre>>

CallLabelSpecificity(label) ==
    /\ Ready
    /\ op' = "labelSpecificity"
    /\ arg' = [label |-> label]
    /\ result' = labelSpecificity(Obj(labels, matrix), label)
    /\ UNCHANGED <<labels, matrix, normalizations, pre>>

CallMatrixSpecificity(average) ==
    /\ Ready
    /\ op' = "matrixSpecificity"
    /\ arg' = [average |-> average]
    /\ result' = matrixSpecificity(Obj(labels, matrix), average)
    /\ UNCHANGED <<labels, matrix, normalizations, pre>>

CallMicroSpecificity ==
    /\ Ready
    /\ op' = "microSpecificity"
    /\ arg' = NoArgs
    /\ result' = microSpecificity(Obj(labels, matrix))
    /\ UNCHANGED <<labels, matrix, normalizations, pre>>

CallMacroSpecificity ==
    /\ Ready
    /\ op' = "macroSpecificity"
    /\ arg' = NoArgs
    /\ result' = macroSpecificity(Obj(labels, matrix))
    /\ UNCHANGED <<labels, matrix, normalizations, pre>>

CallWeightedSpecificity ==
    /\ Ready
    /\ op' = "weightedSpecificity"
    /\ arg' = NoArgs
    /\ result' = weightedSpecificity(Obj(labels, matrix))
    /\ UNCHANGED <<labels, matrix, normalizations, pre>>

CallF1Score(configuration) ==
    /\ Ready
    /\ op' = "f1Score"
    /\ arg' = configuration
    /\ result' = f1Score(Obj(labels, matrix), configuration)
    /\ UNCHANGED <<labels, matrix, normalizations, pre>>

CallLabelF1Score(label) ==
    /\ Ready
    /\ op' = "labelF1Score"
    /\ arg' = [label |-> label]
    /\ result' = labelF1Score(Obj(labels, matrix), label)
    /\ UNCHANGED <<labels, matrix, normalizations, pre>>

CallMatrixF1Score(average) ==
    /\ Ready
    /\ op' = "matrixF1Score"
    /\ arg' = [average |-> average]
    /\ result' = matrixF1Score(Obj(labels, matrix), average)
    /\ UNCHANGED <<labels, matrix, normalizations, pre>>

CallMicroF1Score ==
    /\ Ready
    /\ op' = "microF1Score"
    /\ arg' = NoArgs
    /\ result' = microF1Score(Obj(labels, matrix))
    /\ UNCHANGED <<labels, matrix, normalizations, pre>>

CallMacroF1Score ==
    /\ Ready
    /\ op' = "macroF1Score"
    /\ arg' = NoArgs
    /\ result' = macroF1Score(Obj(labels, matrix))
    /\ UNCHANGED <<labels, matrix, normalizations, pre>>

CallWeightedF1Score ==
    /\ Ready
    /\ op' = "weightedF1Score"
    /\ arg' = NoArgs
    /\ result' = weightedF1Score(Obj(labels, matrix))
    /\ UNCHANGED <<labels, matrix, normalizations, pre>>

CallGetConfusionMatrixClasses(label) ==
    /\ Ready
    /\ op' = "getConfusionMatrixClasses"
    /\ arg' = [label |-> label]
    /\ result' = getConfusionMatrixClasses(Obj(labels, matrix), label)
    /\ UNCHANGED <<labels, matrix, normalizations, pre>>

CallGetAllMatrixClasses ==
    /\ Ready
    /\ op' = "getAllMatrixClasses"
    /\ arg' = NoArgs
    /\ result' = getAllMatrixClasses(Obj(labels, matrix))
    /\ UNCHANGED <<labels, matrix, normalizations, pre>>

CallGetSumConfusionMatrixClasses ==
    /\ Ready
    /\ op' = "getSumConfusionMatrixClasses"
    /\ arg' = NoArgs
    /\ result' = getSumConfusionMatrixClasses(Obj(labels, matrix))
    /\ UNCHANGED <<labels, matrix, normalizations, pre>>

CallGetNumberOfPredictions(label) ==
    /\ Ready
    /\ op' = "getNumberOfPredictions"
    /\ arg' = [label |-> label]
    /\ result' = getNumberOfPredictions(Obj(labels, matrix), label)
    /\ UNCHANGED <<labels, matrix, normalizations, pre>>

CallGetLabelsPredictionsSum ==
    /\ Ready
    /\ op' = "getLabelsPredictionsSum"
    /\ arg' = NoArgs
    /\ result' = Ok(getLabelsPredictionsSum(Obj(labels, matrix)))
    /\ UNCHANGED <<labels, matrix, normalizations, pre>>

\* The first n label names.
LabelsOf(n) == SubSeq(LabelNames, 1, n)

SquareMatrices(n, cells) == [1..n -> [1..n -> cells]]

\* Label arguments: not passed, empty, the first two labels, an unknown one.
LabelArgInputs == {Absent, "", LabelNames[1], LabelNames[2], "Unknown"}

AverageInputs == {Absent, Micro, Macro, Weighted}

ConfigurationInputs ==
    {NoConfiguration} \cup
    { [passed |-> TRUE, label |-> l, average |-> a] :
         l \in LabelArgInputs, a \in AverageInputs }

\* Every matrix of dimension 0, 1 and 2 with cells in 0..MaxCell, and every
\* 3x3 matrix of zeros and ones.
MetricsObjects ==
    UNION { { Obj(LabelsOf(n), m) :
                 m \in SquareMatrices(n, {Num(v) : v \in 0..MaxCell}) } : n \in 0..2 }
    \cup { Obj(LabelsOf(3), m) : m \in SquareMatrices(3, {Zero, One}) }

InitObject(o) ==
    /\ validateMatrix(o) = ""
    /\ labels = o.labels
    /\ matrix = o.matrix
    /\ normalizations = <<>>
    /\ pre = <<>>
    /\ op = "constructor"
    /\ arg = NoArgs
    /\ result = Ok(Undefined)

InitMetrics == \E o \in MetricsObjects : InitObject(o)

NextMetrics ==
    \/ TakeResult
    \/ \E c \in ConfigurationInputs : CallAccuracy(c)
    \/ \E l \in LabelArgInputs : CallLabelAccuracy(l)
    \/ \E a \in AverageInputs : CallMatrixAccuracy(a)
    \/ CallMicroAccuracy
    \/ CallMacroAccuracy
    \/ CallWeightedAccuracy
    \/ \E c \in ConfigurationInputs : CallMissClassificationRate(c)
    \/ \E l \in LabelArgInputs : CallLabelMissClassificationRate(l)
    \/ \E a \in AverageInputs : CallMatrixMissClassificationRate(a)
    \/ CallMicroMissClassificationRate
    \/ CallMacroMissClassificationRate
    \/ CallWeightedMissClassificationRate
    \/ \E c \in ConfigurationInputs : CallPrecision(c)
    \/ \E l \in LabelArgInputs : CallLabelPrecision(l)
    \/ \E a \in AverageInputs : CallMatrixPrecision(a)
    \/ CallMicroPrecision
    \/ CallMacroPrecision
    \/ CallWeightedPrecision
    \/ \E c \in ConfigurationInputs : CallRecall(c)
    \/ \E l \in LabelArgInputs : CallLabelRecall(l)
    \/ \E a \in AverageInputs : CallMatrixRecall(a)
    \/ CallMicroRecall
    \/ CallMacroRecall
    \/ CallWeightedRecall
    \/ \E c \in ConfigurationInputs : CallSpecificity(c)
    \/ \E l \in LabelArgInputs : CallLabelSpecificity(l)
    \/ \E a \in AverageInputs : CallMatrixSpecificity(a)
    \/ CallMicroSpecificity
    \/ CallMacroSpecificity
    \/ CallWeightedSpecificity
    \/ \E c \in ConfigurationInputs : CallF1Score(c)
    \/ \E l \in LabelArgInputs : CallLabelF1Score(l)
    \/ \E a \in AverageInputs : CallMatrixF1Score(a)
    \/ CallMicroF1Score
    \/ CallMacroF1Score
    \/ CallWeightedF1Score
    \/ \E l \in LabelArgInputs : CallGetConfusionMatrixClasses(l)
    \/ CallGetAllMatrixClasses
    \/ CallGetSumConfusionMatrixClasses
    \/ \E l \in LabelArgInputs : CallGetNumberOfPredictions(l)
    \/ CallGetLabelsPredictionsSum

SpecMetrics == InitMetrics /\ [][NextMetrics]_vars

----------------------------------------------------------------------------
(* The diagonal specification: objects whose diagonal cells are positive   *)
(* and whose other cells are zero, on which accuracy is asked for under    *)
(* each averaging mode.                                                    *)

\* The size x size matrix with the values of d on its diagonal.
Diagonal(d) ==
    [i \in DOMAIN d |-> [j \in DOMAIN d |-> IF i = j THEN Num(d[i]) ELSE Zero]]

DiagonalObjects ==
    UNION { { Obj(LabelsOf(n), Diagonal(d)) : d \in [1..n -> 1..MaxCell] } :
               n \in 1..MaxDiagN }

\* The three averaging modes.
AverageModes == {Micro, Macro, Weighted}

InitDiagonal == \E o \in DiagonalObjects : InitObject(o)

NextDiagonal ==
    \/ TakeResult
    \/ \E a \in AverageModes :
          CallAccuracy([passed |-> TRUE, label |-> Absent, average |-> a])
    \/ \E a \in AverageModes : CallMatrixAccuracy(a)
    \/ CallMicroAccuracy
    \/ CallMacroAccuracy
    \/ CallWeightedAccuracy

SpecDiagonal == InitDiagonal /\ [][NextDiagonal]_vars

----------------------------------------------------------------------------
(* Claims about the class counts and the metrics.                          *)

\* The object the call was made on.
This == Obj(labels, matrix)

\* The integer sum of the first n entries of a sequence of integers.
IntSum[s \in Any, n \in Nat] == IF n = 0 THEN 0 ELSE IntSum[s, n - 1] + s[n]

RowTotal(i) == IntSum[[j \in DOMAIN matrix[i] |-> matrix[i][j].n], Len(matrix[i])]

ColumnTotal(j) == IntSum[[i \in DOMAIN matrix |-> matrix[i][j].n], Len(matrix)]

GrandTotal == IntSum[[i \in DOMAIN matrix |-> RowTotal(i)], Len(matrix)]

\* C3: for every valid matrix and every label at index i,
\* getConfusionMatrixClasses(label) returns truePositive = matrix[i][i],
\* falsePositive = (sum of row i) - truePositive, falseNegative = (sum of
\* column i) - truePositive and trueNegative = (sum of all cells) -
\* truePositive - falsePositive - falseNegative, so the four counts add up to
\* the sum of all cells; Happy of [Happy, Sad] with [[1,2],[3,4]] has
\* TP=1, FP=2, FN=3, TN=4.
C3_ClassCounts ==
    (op = "getConfusionMatrixClasses" /\ \E i \in DOMAIN labels : labels[i] = arg.label)
    => LET i == CHOOSE k \in DOMAIN labels : labels[k] = arg.label
           c == result.value
       IN  /\ result.kind = "ok"
           /\ c.truePositive = matrix[i][i]
           /\ c.falsePositive = Num(RowTotal(i) - matrix[i][i].n)
           /\ c.falseNegative = Num(ColumnTotal(i) - matrix[i][i].n)
           /\ c.trueNegative =
                 Num(GrandTotal - c.truePositive.n - c.falsePositive.n
                        - c.falseNegative.n)
           /\ c.truePositive.n + c.falsePositive.n + c.falseNegative.n
                 + c.trueNegative.n = GrandTotal
           /\ (labels = <<"Happy", "Sad">> /\ arg.label = "Happy"
                 /\ matrix = <<<<Num(1), Num(2)>>, <<Num(3), Num(4)>>>>)
              => c = [truePositive |-> Num(1), falsePositive |-> Num(2),
                      falseNegative |-> Num(3), trueNegative |-> Num(4)]

C3_Witness ==
    /\ op = "getConfusionMatrixClasses"
    /\ labels = <<"Happy", "Sad">>
    /\ matrix = <<<<Num(1), Num(2)>>, <<Num(3), Num(4)>>>>
    /\ arg.label = "Happy"
    /\ result = Ok([truePositive |-> Num(1), falsePositive |-> Num(2),
                    falseNegative |-> Num(3), trueNegative |-> Num(4)])

\* The per-label counts getAllMatrixClasses() returns for the object.
PerLabel == getAllMatrixClasses(This).value

\* The counts of one kind pooled over all labels, as an integer.
PooledTP == IntSum[[i \in DOMAIN PerLabel |-> PerLabel[i].confusionMatrixClasses.truePositive.n], Len(PerLabel)]

PooledTN == IntSum[[i \in DOMAIN PerLabel |-> PerLabel[i].confusionMatrixClasses.trueNegative.n], Len(PerLabel)]

PooledFP == IntSum[[i \in DOMAIN PerLabel |-> PerLabel[i].confusionMatrixClasses.falsePositive.n], Len(PerLabel)]

PooledFN == IntSum[[i \in DOMAIN PerLabel |-> PerLabel[i].confusionMatrixClasses.falseNegative.n], Len(PerLabel)]

\* The quotient n / d of two integers, 0 when d is 0.
Quotient(n, d) == IF d = 0 THEN Zero ELSE Rat(n, d)

\* C4: for every valid matrix, getAllMatrixClasses() has one entry per label
\* in label order, getSumConfusionMatrixClasses() is the element-wise sum of
\* those per-label counts, and each micro-averaged metric is its formula
\* applied once to the pooled counts (for microF1Score, where precision +
\* recall of the pooled counts is not 0).
C4_MicroPoolsCounts ==
    /\ op = "getAllMatrixClasses"
       => /\ result.kind = "ok"
          /\ Len(result.value) = Len(labels)
          /\ \A i \in DOMAIN labels :
                /\ result.value[i].label = labels[i]
                /\ Ok(result.value[i].confusionMatrixClasses)
                      = getConfusionMatrixClasses(This, labels[i])
    /\ op = "getSumConfusionMatrixClasses"
       => result = Ok([truePositive |-> Num(PooledTP), trueNegative |-> Num(PooledTN),
                       falsePositive |-> Num(PooledFP), falseNegative |-> Num(PooledFN)])
    /\ op = "microAccuracy"
       => result = Ok(Quotient(PooledTP + PooledTN,
                               PooledTP + PooledTN + PooledFP + PooledFN))
    /\ op = "microMissClassificationRate"
       => result = Ok(Quotient(PooledFP + PooledFN,
                               PooledTP + PooledTN + PooledFP + PooledFN))
    /\ op = "microPrecision"
       => result = Ok(Quotient(PooledTP, PooledTP + PooledFP))
    /\ op = "microRecall"
       => result = Ok(Quotient(PooledTP, PooledTP + PooledFN))
    /\ op = "microSpecificity"
       => result = Ok(Quotient(PooledTN, PooledTN + PooledFP))
    /\ (op = "microF1Score" /\ PooledTP > 0)
       => result = Ok(Div[Mul[Num(2), Mul[Quotient(PooledTP, PooledTP + PooledFP),
                                          Quotient(PooledTP, PooledTP + PooledFN)]],
                          Add[Quotient(PooledTP, PooledTP + PooledFP),
                              Quotient(PooledTP, PooledTP + PooledFN)]])

C4_Witness ==
    /\ op = "microPrecision"
    /\ labels = <<"Happy", "Sad">>
    /\ matrix = <<<<Num(1), Num(2)>>, <<Num(0), Num(3)>>>>
    /\ PooledTP = 4
    /\ PooledFP = 2
    /\ PooledFN = 2
    /\ PooledTN = 4
    /\ result = Ok(Rat(2, 3))

\* The names of the per-label, micro, macro and weighted forms.
LabelForms ==
    {"labelAccuracy", "labelMissClassificationRate", "labelPrecision",
     "labelRecall", "labelSpecificity", "labelF1Score"}

MicroForms ==
    {"microAccuracy", "microMissClassificationRate", "microPrecision",
     "microRecall", "microSpecificity", "microF1Score"}

MacroForms ==
    {"macroAccuracy", "macroMissClassificationRate", "macroPrecision",
     "macroRecall", "macroSpecificity", "macroF1Score"}

WeightedForms ==
    {"weightedAccuracy", "weightedMissClassificationRate", "weightedPrecision",
     "weightedRecall", "weightedSpecificity", "weightedF1Score"}

\* Whether the denominator of the formula of a metric is 0 on the counts
\* tp, tn, fp, fn; for F1, precision + recall is 0 exactly when tp is 0.
ZeroDenominator(metric, tp, tn, fp, fn) ==
    CASE metric \in {"Accuracy", "MissClassificationRate"} -> tp + tn + fp + fn = 0
      [] metric = "Precision" -> tp + fp = 0
      [] metric = "Recall" -> tp + fn = 0
      [] metric = "Specificity" -> tn + fp = 0
      [] metric = "F1Score" -> tp = 0

\* The metric a form computes: the name of the form without its prefix.
MetricOf(form, prefix) ==
    CHOOSE metric \in {"Accuracy", "MissClassificationRate", "Precision",
                       "Recall", "Specificity", "F1Score"} : form = prefix \o metric

\* Whether the call made is a metric form whose denominator is 0.
DegenerateCall ==
    \/ /\ op \in LabelForms
       /\ \E i \in DOMAIN labels : labels[i] = arg.label
       /\ LET i == CHOOSE k \in DOMAIN labels : labels[k] = arg.label
              c == PerLabel[i].confusionMatrixClasses
          IN  ZeroDenominator(MetricOf(op, "label"), c.truePositive.n,
                              c.trueNegative.n, c.falsePositive.n, c.falseNegative.n)
    \/ /\ op \in MicroForms
       /\ ZeroDenominator(MetricOf(op, "micro"), PooledTP, PooledTN, PooledFP, PooledFN)
    \/ /\ op \in MacroForms
       /\ Len(labels) = 0
    \/ /\ op \in WeightedForms
       /\ GrandTotal = 0

\* C5: for every matrix that passes validation (the empty matrix, an
\* all-zero matrix and a matrix with zero diagonal included), each of the six
\* metrics in each of its forms (per-label, micro, macro, weighted) returns 0
\* whenever the denominator of its formula is 0: neither NaN nor an error.
C5_DegenerateIsZero == DegenerateCall => result = Ok(Zero)

\* The per-label, micro, macro and weighted forms of a dispatcher's metric.
LabelFormOf(metric, label) ==
    CASE metric = "accuracy" -> labelAccuracy(This, label)
      [] metric = "missClassificationRate" -> labelMissClassificationRate(This, label)
      [] metric = "precision" -> labelPrecision(This, label)
      [] metric = "recall" -> labelRecall(This, label)
      [] metric = "specificity" -> labelSpecificity(This, label)
      [] metric = "f1Score" -> labelF1Score(This, label)

MicroFormOf(metric) ==
    CASE metric = "accuracy" -> microAccuracy(This)
      [] metric = "missClassificationRate" -> microMissClassificationRate(This)
      [] metric = "precision" -> microPrecision(This)
      [] metric = "recall" -> microRecall(This)
      [] metric = "specificity" -> microSpecificity(This)
      [] metric = "f1Score" -> microF1Score(This)

MacroFormOf(metric) ==
    CASE metric = "accuracy" -> macroAccuracy(This)
      [] metric = "missClassificationRate" -> macroMissClassificationRate(This)
      [] metric = "precision" -> macroPrecision(This)
      [] metric = "recall" -> macroRecall(This)
      [] metric = "specificity" -> macroSpecificity(This)
      [] metric = "f1Score" -> macroF1Score(This)

WeightedFormOf(metric) ==
    CASE metric = "accuracy" -> weightedAccuracy(This)
      [] metric = "missClassificationRate" -> weightedMissClassificationRate(This)
      [] metric = "precision" -> weightedPrecision(This)
      [] metric = "recall" -> weightedRecall(This)
      [] metric = "specificity" -> weightedSpecificity(This)
      [] metric = "f1Score" -> weightedF1Score(This)

Dispatchers ==
    {"accuracy", "missClassificationRate", "precision", "recall", "specificity",
     "f1Score"}

\* C6: a dispatcher called with a configuration that supplies a (non-empty)
\* label returns the per-label value of that label whatever the average;
\* otherwise it returns the micro, macro or weighted value the average
\* selects, and the weighted value when no average is supplied (no argument,
\* or a configuration without average).
C6_DispatcherSelects ==
    op \in Dispatchers
    => IF arg.label # Absent /\ arg.label # ""
       THEN result = LabelFormOf(op, arg.label)
       ELSE /\ arg.average = Micro => result = MicroFormOf(op)
            /\ arg.average = Macro => result = MacroFormOf(op)
            /\ arg.average = Weighted => result = WeightedFormOf(op)
            /\ arg.average = Absent => result = WeightedFormOf(op)

\* A precision call with a configuration that has neither label nor average,
\* on a matrix whose micro, macro and weighted precision all differ.
C6_Witness ==
    /\ op = "precision"
    /\ arg = [passed |-> TRUE, label |-> Absent, average |-> Absent]
    /\ result.kind = "ok"
    /\ result = weightedPrecision(This)
    /\ result # macroPrecision(This)
    /\ result # microPrecision(This)
    /\ macroPrecision(This) # microPrecision(This)

\* Whether the matrix is N x N with N >= 1, positive diagonal cells and zero
\* cells elsewhere.
PositiveDiagonal ==
    /\ Len(matrix) >= 1
    /\ \A i \in DOMAIN matrix :
          /\ Len(matrix[i]) = Len(matrix)
          /\ \A j \in DOMAIN matrix[i] :
                IF i = j THEN matrix[i][j].k = "num" /\ matrix[i][j].n > 0
                ELSE matrix[i][j] = Zero

\* C7: on every N x N matrix (N >= 1) with positive diagonal cells and zero
\* cells elsewhere, accuracy is exactly 1 under Micro, Macro and Weighted.
C7_DiagonalAccuracyIsOne ==
    (PositiveDiagonal
        /\ op \in {"accuracy", "matrixAccuracy", "microAccuracy", "macroAccuracy",
                   "weightedAccuracy"})
    => result = Ok(One)

\* accuracy({average: Macro}) was asked on a 3 x 3 diagonal matrix with
\* unequal diagonal cells.
C7_Witness ==
    /\ PositiveDiagonal
    /\ Len(matrix) = 3
    /\ matrix[1][1] # matrix[2][2]
    /\ op = "accuracy"
    /\ arg.average = Macro
    /\ result = Ok(One)

----------------------------------------------------------------------------
(* Claims about normalize without a minimum and maximum, the oldest        *)
(* snapshot, the value of revertNormalization, and clone.                  *)

\* C11 (as claimed): on an object that passes validation and whose minimum
\* and maximum cannot be determined - the matrix is empty, or cell [0][0]
\* is 0 - normalize(min, max) with min < max fails with the 'Error getting
\* the min and max value' error, pushes no snapshot and leaves labels and
\* matrix as they were.
C11_NoMinMaxIsNormalizationError ==
    [][(/\ op' = "normalize"
        /\ Lt[arg'.min, arg'.max]
        /\ validateMatrix(Obj(labels, matrix)) = ""
        /\ (matrix = <<>> \/ matrix[1][1] = Zero))
          => /\ result' = Throw(ErrMinMax)
             /\ normalizations' = normalizations
             /\ labels' = labels
             /\ matrix' = matrix]_vars

\* C12: revertAllNormalizations on a non-empty history sets labels and
\* matrix to those of the oldest snapshot (index 0) and leaves the history
\* as it was, so that a revertNormalization that follows restores the newest
\* snapshot; on an empty history, on an object that passes validation, it
\* changes nothing and raises no error.
C12_RevertAllRestoresOldest ==
    [][/\ op' = "revertAllNormalizations"
          => /\ normalizations' = normalizations
             /\ Len(normalizations) > 0
                => /\ result'.kind = "ok"
                   /\ labels' = normalizations[1].labels
                   /\ matrix' = normalizations[1].matrix
             /\ (Len(normalizations) = 0 /\ validateMatrix(Obj(labels, matrix)) = "")
                => /\ result'.kind = "ok"
                   /\ labels' = labels
                   /\ matrix' = matrix
       /\ (op = "revertAllNormalizations" /\ op' = "revertNormalization"
              /\ Len(normalizations) > 0)
          => /\ labels' = normalizations[Len(normalizations)].labels
             /\ matrix' = normalizations[Len(normalizations)].matrix
             /\ normalizations' = SubSeq(normalizations, 1, Len(normalizations) - 1)]_vars

\* C12 witness: revertAllNormalizations on a history of two snapshots has
\* restored the oldest one, which differs from the newest, and both are
\* still on the history.
C12_Witness ==
    /\ op = "revertAllNormalizations"
    /\ result.kind = "ok"
    /\ Len(normalizations) = 2
    /\ matrix = normalizations[1].matrix
    /\ matrix # normalizations[2].matrix

\* C13 (as claimed): after one or more successful normalize calls on a
\* freshly constructed matrix M0, revertAllNormalizations leaves the matrix
\* equal to the result of the first normalize call, not to M0.
C13_RevertAllGivesFirstNormalized ==
    [][(op' = "revertAllNormalizations" /\ Len(pre) > 0)
          => /\ matrix' = pre[1].normalized
             /\ matrix' # pre[1].matrix]_vars

\* C13 (amended): after one or more successful normalize calls on a matrix
\* M0, revertAllNormalizations leaves labels and matrix equal to M0, the
\* state before the first normalize call (the snapshot that call pushed),
\* and so not to the result of the first normalize call where that differs
\* from M0.
C13_RevertAllGivesOriginal ==
    [][(op' = "revertAllNormalizations" /\ Len(pre) > 0)
          => /\ result'.kind = "ok"
             /\ labels' = pre[1].labels
             /\ matrix' = pre[1].matrix
             /\ pre[1].normalized # pre[1].matrix
                => matrix' # pre[1].normalized]_vars

\* C13 witness: revertAllNormalizations right after two normalize calls on
\* [[1,2],[3,4]] has put the matrix back to [[1,2],[3,4]], which is neither
\* result of the two calls.
C13_Witness ==
    /\ op = "revertAllNormalizations"
    /\ Len(pre) = 2
    /\ pre[1].matrix = Mat(<< <<1, 2>>, <<3, 4>> >>)
    /\ pre[2].matrix = pre[1].normalized
    /\ matrix = Mat(<< <<1, 2>>, <<3, 4>> >>)
    /\ matrix # pre[1].normalized
    /\ matrix # pre[2].normalized

\* C14 (as claimed): revertNormalization returns the confusion matrix as it
\* was before the reverted normalization whenever the history holds a
\* snapshot, and returns null only on an empty history, where labels, matrix
\* and history stay and no error is raised.
C14_RevertReturnsPrevious ==
    [][op' = "revertNormalization"
          => IF Len(normalizations) > 0
             THEN result' = Ok(Obj(pre[Len(pre)].labels, pre[Len(pre)].matrix))
             ELSE /\ result' = Ok(Null)
                  /\ labels' = labels
                  /\ matrix' = matrix
                  /\ normalizations' = normalizations]_vars

\* C15 (as claimed): clone() returns an object whose labels, matrix and
\* normalization history (same length, same snapshots, same order) equal
\* those of the object it was called on.
C15_CloneEqualsOriginal ==
    (op = "clone" /\ validateMatrix(Obj(labels, matrix)) = "")
    => /\ result.kind = "ok"
       /\ result.value.labels = labels
       /\ result.value.matrix = matrix
       /\ result.value.normalizations = normalizations

----------------------------------------------------------------------------
(* The revalidation specification: a constructed object whose public       *)
(* fields are assigned between calls of the metric methods.                *)

NextRevalidate ==
    \/ TakeResult
    \/ \E l \in LabelInputs : AssignLabels(l)
    \/ \E m \in MatrixInputs : AssignMatrix(m)
    \/ \E c \in ConfigurationInputs : CallAccuracy(c)
    \/ \E l \in LabelArgInputs : CallLabelAccuracy(l)
    \/ \E a \in AverageInputs : CallMatrixAccuracy(a)
    \/ CallMicroAccuracy
    \/ CallMacroAccuracy
    \/ CallWeightedAccuracy
    \/ \E c \in ConfigurationInputs : CallMissClassificationRate(c)
    \/ \E l \in LabelArgInputs : CallLabelMissClassificationRate(l)
    \/ \E a \in AverageInputs : CallMatrixMissClassificationRate(a)
    \/ CallMicroMissClassificationRate
    \/ CallMacroMissClassificationRate
    \/ CallWeightedMissClassificationRate
    \/ \E c \in ConfigurationInputs : CallPrecision(c)
    \/ \E l \in LabelArgInputs : CallLabelPrecision(l)
    \/ \E a \in AverageInputs : CallMatrixPrecision(a)
    \/ CallMicroPrecision
    \/ CallMacroPrecision
    \/ CallWeightedPrecision
    \/ \E c \in ConfigurationInputs : CallRecall(c)
    \/ \E l \in LabelArgInputs : CallLabelRecall(l)
    \/ \E a \in AverageInputs : CallMatrixRecall(a)
    \/ CallMicroRecall
    \/ CallMacroRecall
    \/ CallWeightedRecall
    \/ \E c \in ConfigurationInputs : CallSpecificity(c)
    \/ \E l \in LabelArgInputs : CallLabelSpecificity(l)
    \/ \E a \in AverageInputs : CallMatrixSpecificity(a)
    \/ CallMicroSpecificity
    \/ CallMacroSpecificity
    \/ CallWeightedSpecificity
    \/ \E c \in ConfigurationInputs : CallF1Score(c)
    \/ \E l \in LabelArgInputs : CallLabelF1Score(l)
    \/ \E a \in AverageInputs : CallMatrixF1Score(a)
    \/ CallMicroF1Score
    \/ CallMacroF1Score
    \/ CallWeightedF1Score

SpecRevalidate == Init /\ [][NextRevalidate]_vars

\* C16 (as claimed): once the labels or matrix fields have been changed so
\* that a structural invariant no longer holds (label/row count mismatch,
\* non-square row, duplicate label, an empty label list with a non-empty
\* matrix included), each of the six dispatchers and each per-label, micro,
\* macro and weighted form (and each matrix form) fails with the validation
\* error instead of returning a number.
C16_MetricsRevalidate ==
    (/\ op \in Dispatchers \cup LabelForms \cup MicroForms \cup MacroForms
                  \cup WeightedForms
                  \cup {"matrixAccuracy", "matrixMissClassificationRate",
                        "matrixPrecision", "matrixRecall", "matrixSpecificity",
                        "matrixF1Score"}
     /\ validateMatrix(This) # "")
    => result = Throw(validateMatrix(This))

\* C17 (as claimed): getNumberOfPredictions(label) returns the sum of the
\* label's column when the label is in the label list, the sum of all column
\* sums when no label is given, and fails with the unknown-label error for
\* every non-empty label that is not in the label list.
C17_NumberOfPredictions ==
    op = "getNumberOfPredictions"
    => IF \E i \in DOMAIN labels : labels[i] = arg.label
       THEN result = Ok(Num(ColumnTotal(CHOOSE i \in DOMAIN labels :
                                           labels[i] = arg.label)))
       ELSE IF arg.label \in {Absent, ""}
       THEN result = Ok(Num(IntSum[[j \in DOMAIN labels |-> ColumnTotal(j)],
                                   Len(labels)]))
       ELSE result = Throw(ErrUnknownLabel)

============================================================================
